---------------------------- MODULE Spec2Model ----------------------------
(***************************************************************************)
(* Model of src/main.py: the approval workflow over the relational store   *)
(* (enquiries, quickcontact, active_clients) and the in-memory session     *)
(* registry (active_sessions).                                             *)
(*                                                                         *)
(* The store is PostgreSQL driven through psycopg2.  A handler opens one   *)
(* connection, its first statement opens a transaction, conn.commit()      *)
(* makes the writes visible, and an exception leaving the `with get_db()`  *)
(* block rolls the transaction back.  No handler sets an isolation level,  *)
(* so statements run READ COMMITTED: each statement reads the committed    *)
(* rows plus the transaction's own writes, a DELETE/UPDATE waits for a row *)
(* locked by another open transaction and, once that one has committed a   *)
(* delete, affects zero rows without raising.                              *)
(*                                                                         *)
(* Handlers of the store run in several server workers sharing the store,  *)
(* so their statements interleave.  active_sessions is a module-level dict *)
(* of one server process; login / validate_session / user_logout are       *)
(* `async def` bodies without an await, so each runs as one step.          *)
(***************************************************************************)
EXTENDS Integers, FiniteSets, Sequences, TLC

\* ---------------------------------------------------------------- bounds
\* Requests (of any kind) served in one behaviour.
MaxRequests == 3
\* Ids a request may name, and the cap of the enquiries/quickcontact serials.
MaxId == 2
\* Clock steps in one behaviour of the session registry.
MaxTicks == 2
\* Session tokens (uuid4 values) generated in one behaviour.
MaxTokens == 2
MaxBlogs == 2      \* blog rows ever inserted
MaxCalls == 3      \* session requests received by the event loop

\* ------------------------------------------------------- program constants
SESSION_DURATION_MINUTES == 1080

\* ------------------------------------------------------------ input sets
\* The server workers whose requests on the store may overlap.
Workers == {1, 2}

\* Contact fields (name, email, phone) a submission or a request body carries.
People ==
    { [name |-> "ann", email |-> "ann@x", phone |-> "111"],
      [name |-> "bob", email |-> "bob@x", phone |-> "222"] }

Ids == 1..MaxId

\* The users table (read-only for this program): email |-> plaintext password.
Users == [e \in {"a@x", "b@x"} |-> IF e = "a@x" THEN "p" ELSE "q"]
\* Emails and passwords a request may carry ("c@x" is no user).
Emails == {"a@x", "b@x", "c@x"}
Passwords == {"p", "q"}
\* Session ids a request may carry.
Tokens == 1..MaxTokens
\* The amounts (minutes) the clock advances by in one step.
TickSteps == {1, SESSION_DURATION_MINUTES}
Slugs == {"s1", "s2"}
Coroutines == {1, 2}
Titles == {"t1", "t2"}

VARIABLES
    enquiries,        \* committed rows of table enquiries
    quickcontact,     \* committed rows of table quickcontact
    active_clients,   \* committed rows of table active_clients
    serial,           \* the three id sequences (next value of each)
    tx,               \* per worker: the request in flight and its transaction
    nreq,             \* requests started so far
    denied,           \* history: submissions whose deny committed
    active_sessions,  \* the session registry: email |-> session or NoSession
    now,              \* datetime.utcnow(), in minutes
    ticks,            \* clock steps taken
    nuuid,            \* uuid4 values generated so far
    hist,             \* history: per email the last token a login returned
    resp,             \* the last response of a session endpoint
    lastFault,        \* history: the last session request met a storage fault
    blogs,            \* committed rows of table blogs
    blog_serial,      \* the id sequence of table blogs (next value)
    blog_resp,        \* the last response of a blog endpoint
    co,               \* per coroutine: the session request it handles
    running,          \* the coroutine the event loop is running, or 0
    ncalls,           \* session requests received so far
    last_store        \* history: per email the coroutine that stored last

dbVars == <<enquiries, quickcontact, active_clients, serial, tx, nreq, denied>>
sessVars == <<active_sessions, now, ticks, nuuid, hist, resp, lastFault>>
blogVars == <<blogs, blog_serial, blog_resp>>
loopVars == <<co, running, ncalls, last_store>>
notDbVars == <<sessVars, blogVars, loopVars>>
notSessVars == <<dbVars, blogVars, loopVars>>
notBlogVars == <<dbVars, sessVars, loopVars>>
notLoopVars == <<dbVars, blogVars, now, ticks, hist, resp, lastFault>>
vars == <<enquiries, quickcontact, active_clients, serial, tx, nreq, denied,
          active_sessions, now, ticks, nuuid, hist, resp, lastFault,
          blogs, blog_serial, blog_resp, co, running, ncalls, last_store>>


\* ------------------------------------------------------------ the store
NoPerson == [name |-> "NULL", email |-> "NULL", phone |-> "NULL"]

NoRow ==
    [id |-> 0, client_name |-> "NULL", contact_email |-> "NULL",
     contact_phone |-> "NULL", status |-> "NULL",
     src |-> [kind |-> "none", id |-> 0], req |-> 0]

\* A worker with no request in flight.
Idle ==
    [op |-> "none", id |-> 0, body |-> NoPerson, info |-> NoPerson,
     pc |-> "idle", ins |-> NoRow, lock |-> FALSE, status |-> 0,
     rid |-> 0, faulted |-> FALSE, conn |-> "none"]

\* The table a handler's existence check and DELETE/UPDATE address.
TableName(op) ==
    CASE op \in {"approve_enquiry", "deny_enquiry"} -> "enquiries"
      [] op \in {"approve_quickcontact", "deny_quickcontact"} -> "quickcontact"
      [] OTHER -> "active_clients"

\* The committed rows as one value, for the operators below.
Db == [enquiries |-> enquiries, quickcontact |-> quickcontact,
       active_clients |-> active_clients]

\* SELECT ... FROM t WHERE id = %s; cur.fetchone() is a row.
Found(table, id) == \E r \in table : r.id = id

\* cur.fetchone() of SELECT id, name, phone FROM quickcontact WHERE id = %s.
FetchOne(table, id) == CHOOSE r \in table : r.id = id

\* Mutant of DeleteRows: the DELETE removes nothing.
DeleteNothing(table, id) == table

\* DELETE FROM t WHERE id = %s.
DeleteRows(table, id) == {r \in table : r.id # id}

\* Mutant of CompleteRows: the UPDATE changes no row.
CompleteNothing(table, id) == table

\* UPDATE active_clients SET status='completed' WHERE id = %s.
CompleteRows(table, id) ==
    {IF r.id = id THEN [r EXCEPT !.status = "completed"] ELSE r : r \in table}

\* The row approve_enquiry inserts: contact fields from the request body.
EnquiryClientRow(cid, t) ==
    [id |-> cid, client_name |-> t.body.name, contact_email |-> t.body.email,
     contact_phone |-> t.body.phone, status |-> "active",
     src |-> [kind |-> "enquiry", id |-> t.id], req |-> t.rid]

\* The row approve_quickcontact inserts: contact fields re-read from storage.
QuickContactClientRow(cid, t) ==
    [id |-> cid, client_name |-> t.info.name, contact_email |-> "NULL",
     contact_phone |-> t.info.phone, status |-> "active",
     src |-> [kind |-> "quickcontact", id |-> t.id], req |-> t.rid]

\* The response code of a handler that returns normally.
SuccessStatus(op) ==
    IF op \in {"approve_enquiry", "approve_quickcontact"} THEN 201 ELSE 200

\* conn.commit(): the transaction's writes become the committed rows.
CommitWrites(db, t) ==
    LET tn == TableName(t.op)
        d1 == IF t.ins # NoRow
              THEN [db EXCEPT !.active_clients = @ \cup {t.ins}]
              ELSE db
    IN  IF ~t.lock THEN d1
        ELSE IF t.op = "complete"
             THEN [d1 EXCEPT !.active_clients = CompleteRows(@, t.id)]
             ELSE [d1 EXCEPT ![tn] = DeleteRows(@, t.id)]

\* Mutant of RollbackWrites: the INSERT survives the exception (each
\* statement committed on its own).
RollbackKeepsInsert(db, t) ==
    IF t.ins # NoRow THEN [db EXCEPT !.active_clients = @ \cup {t.ins}] ELSE db

\* An exception leaves `with get_db() as conn`: the transaction is rolled back.
RollbackWrites(db, t) == db

\* The handler's `except Exception` branch: HTTP 500 after the rollback.
Failed(t) ==
    [Idle EXCEPT !.op = t.op, !.id = t.id, !.rid = t.rid, !.pc = "done", !.status = 500,
                 !.faulted = TRUE, !.conn = t.conn]

\* Mutant of NotFound: the result of the existence check is ignored.
NotFoundIgnored(t) == [t EXCEPT !.pc = "checked"]

\* The handler's `raise HTTPException(status_code=404, ...)`, re-raised.
NotFound(t) ==
    [Idle EXCEPT !.op = t.op, !.id = t.id, !.rid = t.rid, !.pc = "done", !.status = 404,
                 !.conn = t.conn]

\* The handler's return after conn.commit().
Succeeded(t) ==
    [Idle EXCEPT !.op = t.op, !.id = t.id, !.rid = t.rid, !.pc = "done",
                 !.status = SuccessStatus(t.op), !.conn = t.conn]

\* The worker that takes the next request: the first one that is free.
FreeWorker(w) ==
    /\ tx[w].pc \in {"idle", "done"}
    /\ \A v \in Workers : tx[v].pc \in {"idle", "done"} => ~(v < w)

\* Another open transaction holds the lock of row id of table tn.
LockedByOther(w, tn, id) ==
    \E v \in Workers \ {w} :
        tx[v].lock /\ TableName(tx[v].op) = tn /\ tx[v].id = id

SetDb(db) ==
    /\ enquiries' = db.enquiries
    /\ quickcontact' = db.quickcontact
    /\ active_clients' = db.active_clients

\* get_db() and the existence check of a handler.  A fault here is a failed
\* psycopg2.connect: no connection exists.  Otherwise the connection is open,
\* and `with conn` (commit or rollback on exit) leaves it open.
Select(w, op, id, body, fault) ==
    /\ FreeWorker(w)
    /\ nreq < MaxRequests
    /\ nreq' = nreq + 1
    /\ LET t0 == [Idle EXCEPT !.op = op, !.id = id, !.body = body,
                               !.rid = nreq + 1]
           table == Db[TableName(op)]
       IN  /\ tx' = [tx EXCEPT ![w] =
                 IF fault THEN Failed(t0)
                 ELSE IF ~Found(table, id)
                      THEN NotFound([t0 EXCEPT !.conn = "open"])
                      ELSE [t0 EXCEPT !.pc = "checked", !.conn = "open",
                                !.info = IF op = "approve_quickcontact"
                                         THEN [name |-> FetchOne(table, id).name,
                                               email |-> "NULL",
                                               phone |-> FetchOne(table, id).phone]
                                         ELSE NoPerson]]
           /\ SetDb(IF fault THEN RollbackWrites(Db, t0) ELSE Db)
    /\ UNCHANGED <<serial, denied>>

\* INSERT INTO active_clients ... of the two approve handlers.
Insert(w, op, fault) ==
    /\ tx[w].op = op
    /\ tx[w].pc = "checked"
    /\ IF fault
       THEN /\ tx' = [tx EXCEPT ![w] = Failed(@)]
            /\ SetDb(RollbackWrites(Db, tx[w]))
            /\ UNCHANGED serial
       ELSE /\ tx' = [tx EXCEPT ![w] =
                 [tx[w] EXCEPT !.pc = "inserted",
                               !.ins = IF op = "approve_enquiry"
                                       THEN EnquiryClientRow(serial.client, tx[w])
                                       ELSE QuickContactClientRow(serial.client, tx[w])]]
            /\ serial' = [serial EXCEPT !.client = @ + 1]
            /\ SetDb(Db)
    /\ UNCHANGED <<nreq, denied>>

\* DELETE FROM <source table> / UPDATE active_clients of a handler at pc `at`.
Write(w, op, at, fault) ==
    /\ tx[w].op = op
    /\ tx[w].pc = at
    /\ ~LockedByOther(w, TableName(op), tx[w].id)
    /\ IF fault
       THEN /\ tx' = [tx EXCEPT ![w] = Failed(@)]
            /\ SetDb(RollbackWrites(Db, tx[w]))
       ELSE /\ tx' = [tx EXCEPT ![w] =
                 [tx[w] EXCEPT !.pc = "written",
                               !.lock = Found(Db[TableName(op)], tx[w].id)]]
            /\ SetDb(Db)
    /\ UNCHANGED <<serial, nreq, denied>>

\* conn.commit() and the handler's return.
Commit(w, op, fault) ==
    /\ tx[w].op = op
    /\ tx[w].pc = "written"
    /\ IF fault
       THEN /\ tx' = [tx EXCEPT ![w] = Failed(@)]
            /\ SetDb(RollbackWrites(Db, tx[w]))
            /\ UNCHANGED denied
       ELSE /\ tx' = [tx EXCEPT ![w] = Succeeded(@)]
            /\ SetDb(CommitWrites(Db, tx[w]))
            /\ denied' = IF op \in {"deny_enquiry", "deny_quickcontact"}
                         THEN denied \cup {[kind |-> TableName(op), id |-> tx[w].id]}
                         ELSE denied
    /\ UNCHANGED <<serial, nreq>>

\* No handler calls conn.close(): the connection of a finished request stays
\* open until its last reference is dropped and the object is finalized.
ReclaimConnection ==
    \E w \in Workers :
        /\ tx[w].pc = "done"
        /\ tx[w].conn = "open"
        /\ tx' = [tx EXCEPT ![w].conn = "closed"]
        /\ UNCHANGED <<enquiries, quickcontact, active_clients, serial, nreq,
                       denied>>
        /\ UNCHANGED notDbVars

\* add_enquiry: one INSERT and its commit.
AddEnquiry ==
    \E person \in People, fault \in BOOLEAN :
        /\ nreq < MaxRequests
        /\ serial.enq <= MaxId
        /\ nreq' = nreq + 1
        /\ IF fault
           THEN UNCHANGED <<enquiries, serial>>
           ELSE /\ enquiries' = enquiries \cup
                      {[id |-> serial.enq, name |-> person.name,
                        email |-> person.email, phone |-> person.phone]}
                /\ serial' = [serial EXCEPT !.enq = @ + 1]
        /\ UNCHANGED <<quickcontact, active_clients, tx, denied>>
        /\ UNCHANGED notDbVars

\* add_quickcontact: one INSERT and its commit.
AddQuickContact ==
    \E person \in People, fault \in BOOLEAN :
        /\ nreq < MaxRequests
        /\ serial.qc <= MaxId
        /\ nreq' = nreq + 1
        /\ IF fault
           THEN UNCHANGED <<quickcontact, serial>>
           ELSE /\ quickcontact' = quickcontact \cup
                      {[id |-> serial.qc, name |-> person.name,
                        phone |-> person.phone]}
                /\ serial' = [serial EXCEPT !.qc = @ + 1]
        /\ UNCHANGED <<enquiries, active_clients, tx, denied>>
        /\ UNCHANGED notDbVars

\* deny_enquiry, statement by statement.
DenyEnquirySelect ==
    \E w \in Workers, id \in Ids, fault \in BOOLEAN :
        Select(w, "deny_enquiry", id, NoPerson, fault) /\ UNCHANGED notDbVars
DenyEnquiryDelete ==
    \E w \in Workers, fault \in BOOLEAN :
        Write(w, "deny_enquiry", "checked", fault) /\ UNCHANGED notDbVars
DenyEnquiryCommit ==
    \E w \in Workers, fault \in BOOLEAN :
        Commit(w, "deny_enquiry", fault) /\ UNCHANGED notDbVars

\* approve_enquiry, statement by statement.
ApproveEnquirySelect ==
    \E w \in Workers, id \in Ids, body \in People, fault \in BOOLEAN :
        Select(w, "approve_enquiry", id, body, fault) /\ UNCHANGED notDbVars
ApproveEnquiryInsert ==
    \E w \in Workers, fault \in BOOLEAN :
        Insert(w, "approve_enquiry", fault) /\ UNCHANGED notDbVars
ApproveEnquiryDelete ==
    \E w \in Workers, fault \in BOOLEAN :
        Write(w, "approve_enquiry", "inserted", fault) /\ UNCHANGED notDbVars
ApproveEnquiryCommit ==
    \E w \in Workers, fault \in BOOLEAN :
        Commit(w, "approve_enquiry", fault) /\ UNCHANGED notDbVars

\* deny_quickcontact, statement by statement.
DenyQuickContactSelect ==
    \E w \in Workers, id \in Ids, fault \in BOOLEAN :
        Select(w, "deny_quickcontact", id, NoPerson, fault) /\ UNCHANGED notDbVars
DenyQuickContactDelete ==
    \E w \in Workers, fault \in BOOLEAN :
        Write(w, "deny_quickcontact", "checked", fault) /\ UNCHANGED notDbVars
DenyQuickContactCommit ==
    \E w \in Workers, fault \in BOOLEAN :
        Commit(w, "deny_quickcontact", fault) /\ UNCHANGED notDbVars

\* approve_quickcontact, statement by statement.
ApproveQuickContactSelect ==
    \E w \in Workers, id \in Ids, fault \in BOOLEAN :
        Select(w, "approve_quickcontact", id, NoPerson, fault) /\ UNCHANGED notDbVars
ApproveQuickContactInsert ==
    \E w \in Workers, fault \in BOOLEAN :
        Insert(w, "approve_quickcontact", fault) /\ UNCHANGED notDbVars
ApproveQuickContactDelete ==
    \E w \in Workers, fault \in BOOLEAN :
        Write(w, "approve_quickcontact", "inserted", fault) /\ UNCHANGED notDbVars
ApproveQuickContactCommit ==
    \E w \in Workers, fault \in BOOLEAN :
        Commit(w, "approve_quickcontact", fault) /\ UNCHANGED notDbVars

\* complete_client_project, statement by statement.
CompleteSelect ==
    \E w \in Workers, id \in Ids, fault \in BOOLEAN :
        Select(w, "complete", id, NoPerson, fault) /\ UNCHANGED notDbVars
CompleteUpdate ==
    \E w \in Workers, fault \in BOOLEAN :
        Write(w, "complete", "checked", fault) /\ UNCHANGED notDbVars
CompleteCommit ==
    \E w \in Workers, fault \in BOOLEAN :
        Commit(w, "complete", fault) /\ UNCHANGED notDbVars

InitDb ==
    /\ enquiries = {}
    /\ quickcontact = {}
    /\ active_clients = {}
    /\ serial = [enq |-> 1, qc |-> 1, client |-> 1]
    /\ tx = [w \in Workers |-> Idle]
    /\ nreq = 0
    /\ denied = {}

NextDb ==
    \/ ReclaimConnection
    \/ AddEnquiry
    \/ AddQuickContact
    \/ DenyEnquirySelect
    \/ DenyEnquiryDelete
    \/ DenyEnquiryCommit
    \/ ApproveEnquirySelect
    \/ ApproveEnquiryInsert
    \/ ApproveEnquiryDelete
    \/ ApproveEnquiryCommit
    \/ DenyQuickContactSelect
    \/ DenyQuickContactDelete
    \/ DenyQuickContactCommit
    \/ ApproveQuickContactSelect
    \/ ApproveQuickContactInsert
    \/ ApproveQuickContactDelete
    \/ ApproveQuickContactCommit
    \/ CompleteSelect
    \/ CompleteUpdate
    \/ CompleteCommit

\* ------------------------------------------------- the session registry
NoSession == [session_id |-> 0, expires_at |-> 0]

\* What a login, logout or failed validation leaves in the history.
NoHist == [token |-> 0, at |-> 0, live |-> FALSE]

InitSession ==
    /\ active_sessions = [e \in Emails |-> NoSession]
    /\ now = 0
    /\ ticks = 0
    /\ nuuid = 0
    /\ hist = [e \in Emails |-> NoHist]
    /\ resp = [op |-> "none", email |-> "NULL", token |-> 0, status |-> 0]
    /\ lastFault = FALSE

\* get_user_by_email: the user's password, or "NONE" for no row; a storage
\* fault is caught, logged and answered by None.
get_user_by_email(email, fault) ==
    IF fault \/ email \notin DOMAIN Users THEN "NONE" ELSE Users[email]

\* The session login stores: {"session_id": ..., "expires_at": utcnow() + 1080 min}.
NewSession(session_id, t) ==
    [session_id |-> session_id, expires_at |-> t + SESSION_DURATION_MINUTES]

\* Mutant of StoreSession: an existing entry is kept (setdefault).
StoreIfAbsent(sessions, email, session) ==
    IF sessions[email] = NoSession
    THEN [sessions EXCEPT ![email] = session]
    ELSE sessions

\* active_sessions[email] = session.
StoreSession(sessions, email, session) ==
    [sessions EXCEPT ![email] = session]

\* Mutant of PopSession: the entry is left in place.
PopNothing(sessions, email) == sessions

\* active_sessions.pop(email, None).
PopSession(sessions, email) == [sessions EXCEPT ![email] = NoSession]

\* Mutant of SessionInvalid: the expiry comparison is reversed.
SessionInvalidReversed(session, session_id, t) ==
    \/ session = NoSession
    \/ session.session_id # session_id
    \/ session.expires_at > t

\* Mutant of SessionInvalid: a session is invalid from its expiry instant on.
SessionInvalidAtExpiry(session, session_id, t) ==
    \/ session = NoSession
    \/ session.session_id # session_id
    \/ session.expires_at <= t

\* The condition of validate_session's `if`.
SessionInvalid(session, session_id, t) ==
    \/ session = NoSession
    \/ session.session_id # session_id
    \/ session.expires_at < t

\* login
Login ==
    \E email \in Emails, password \in Passwords, fault \in BOOLEAN :
        LET user == get_user_by_email(email, fault)
        IN  /\ IF user = "NONE" \/ user # password
               THEN /\ resp' = [op |-> "login", email |-> email, token |-> 0,
                                status |-> 401]
                    /\ UNCHANGED <<active_sessions, nuuid, hist>>
               ELSE /\ nuuid < MaxTokens
                    /\ nuuid' = nuuid + 1
                    /\ active_sessions' =
                           StoreSession(active_sessions, email,
                                        NewSession(nuuid + 1, now))
                    /\ hist' = [hist EXCEPT ![email] =
                                   [token |-> nuuid + 1, at |-> now, live |-> TRUE]]
                    /\ resp' = [op |-> "login", email |-> email,
                                token |-> nuuid + 1, status |-> 200]
            /\ lastFault' = fault
            /\ UNCHANGED <<now, ticks>>
            /\ UNCHANGED notSessVars

\* validate_session
ValidateSession ==
    \E email \in Emails, session_id \in Tokens :
        /\ IF SessionInvalid(active_sessions[email], session_id, now)
           THEN /\ active_sessions' = PopSession(active_sessions, email)
                /\ hist' = [hist EXCEPT ![email].live = FALSE]
                /\ resp' = [op |-> "validate", email |-> email,
                            token |-> session_id, status |-> 401]
           ELSE /\ resp' = [op |-> "validate", email |-> email,
                            token |-> session_id, status |-> 200]
                /\ UNCHANGED <<active_sessions, hist>>
        /\ lastFault' = FALSE
        /\ UNCHANGED <<now, ticks, nuuid>>
        /\ UNCHANGED notSessVars

\* Mutant of LogoutSessions: the entry is removed only for the stored token.
LogoutIfTokenMatches(sessions, email, session_id) ==
    IF sessions[email].session_id = session_id
    THEN PopSession(sessions, email)
    ELSE sessions

\* user_logout's active_sessions.pop(req.email, None): req.session_id is not read.
LogoutSessions(sessions, email, session_id) == PopSession(sessions, email)

\* user_logout
UserLogout ==
    \E email \in Emails, session_id \in Tokens :
        /\ active_sessions' = LogoutSessions(active_sessions, email, session_id)
        /\ hist' = [hist EXCEPT ![email].live = FALSE]
        /\ resp' = [op |-> "logout", email |-> email, token |-> session_id,
                    status |-> 200]
        /\ lastFault' = FALSE
        /\ UNCHANGED <<now, ticks, nuuid>>
        /\ UNCHANGED notSessVars

\* Time passes between two requests.
Tick ==
    \E d \in TickSteps :
        /\ ticks < MaxTicks
        /\ ticks' = ticks + 1
        /\ now' = now + d
        /\ UNCHANGED <<active_sessions, nuuid, hist, resp, lastFault>>
        /\ UNCHANGED notSessVars

NextSession ==
    \/ Login
    \/ ValidateSession
    \/ UserLogout
    \/ Tick

\* ------------------------------------------------------------ the blogs
\* A blogs row is its id, its slug and, for the other columns, its title.
\* The repository declares no schema: whether column slug carries a UNIQUE
\* constraint is not known, so a write that would give two rows one slug is
\* either stored or rejected by the store (an exception, hence 500).

InitBlog ==
    /\ blogs = {}
    /\ blog_serial = 1
    /\ blog_resp = [op |-> "none", slug |-> "NULL", status |-> 0]

\* SELECT 1 FROM blogs WHERE slug = %s; fetchone().
SlugExists(table, slug) == \E b \in table : b.slug = slug

\* UPDATE blogs SET title = %s, slug = %s, ... WHERE slug = %s.
UpdateBlogRows(table, slug, new_slug, title) ==
    {IF b.slug = slug THEN [b EXCEPT !.slug = new_slug, !.title = title] ELSE b :
        b \in table}

\* DELETE FROM blogs WHERE slug = %s.
DeleteBlogRows(table, slug) == {b \in table : b.slug # slug}

\* add_blog
AddBlog ==
    \E slug \in Slugs, title \in Titles, fault \in BOOLEAN :
        /\ IF fault
           THEN /\ blog_resp' = [op |-> "add", slug |-> slug, status |-> 500]
                /\ UNCHANGED <<blogs, blog_serial>>
           ELSE IF SlugExists(blogs, slug)
           THEN /\ blog_resp' = [op |-> "add", slug |-> slug, status |-> 400]
                /\ UNCHANGED <<blogs, blog_serial>>
           ELSE /\ blog_serial <= MaxBlogs
                /\ blogs' = blogs \cup
                       {[id |-> blog_serial, slug |-> slug, title |-> title]}
                /\ blog_serial' = blog_serial + 1
                /\ blog_resp' = [op |-> "add", slug |-> slug, status |-> 201]
        /\ UNCHANGED notBlogVars

\* edit_blog: the existence check is on the old slug only.
EditBlog ==
    \E slug \in Slugs, new_slug \in Slugs, title \in Titles,
       fault \in BOOLEAN, unique \in BOOLEAN :
        /\ IF fault
           THEN /\ blog_resp' = [op |-> "edit", slug |-> slug, status |-> 500]
                /\ UNCHANGED blogs
           ELSE IF ~SlugExists(blogs, slug)
           THEN /\ blog_resp' = [op |-> "edit", slug |-> slug, status |-> 404]
                /\ UNCHANGED blogs
           ELSE IF unique /\ new_slug # slug /\ SlugExists(blogs, new_slug)
           THEN /\ blog_resp' = [op |-> "edit", slug |-> slug, status |-> 500]
                /\ UNCHANGED blogs
           ELSE /\ blogs' = UpdateBlogRows(blogs, slug, new_slug, title)
                /\ blog_resp' = [op |-> "edit", slug |-> slug, status |-> 200]
        /\ UNCHANGED blog_serial
        /\ UNCHANGED notBlogVars

\* delete_blog
DeleteBlog ==
    \E slug \in Slugs, fault \in BOOLEAN :
        /\ IF fault
           THEN /\ blog_resp' = [op |-> "delete", slug |-> slug, status |-> 500]
                /\ UNCHANGED blogs
           ELSE IF ~SlugExists(blogs, slug)
           THEN /\ blog_resp' = [op |-> "delete", slug |-> slug, status |-> 404]
                /\ UNCHANGED blogs
           ELSE /\ blogs' = DeleteBlogRows(blogs, slug)
                /\ blog_resp' = [op |-> "delete", slug |-> slug, status |-> 200]
        /\ UNCHANGED blog_serial
        /\ UNCHANGED notBlogVars

NextBlog ==
    \/ AddBlog
    \/ EditBlog
    \/ DeleteBlog

\* ------------------------------------------- the handlers on the event loop
\* login, validate_session and user_logout are `async def` and contain no
\* await: the event loop runs the body of one of them from its first
\* statement to its return before it runs any other coroutine.  Here the
\* bodies are split at their accesses to active_sessions.

NoCall ==
    [op |-> "none", email |-> "NULL", password |-> "NULL", session_id |-> 0,
     pc |-> "idle", session |-> NoSession, token |-> 0, status |-> 0,
     seen |-> 0]

InitLoop ==
    /\ co = [c \in Coroutines |-> NoCall]
    /\ running = 0
    /\ ncalls = 0
    /\ last_store = [e \in Emails |-> 0]

\* Mutant of OnLoop: the handlers are plain `def` and run on pool threads.
OnThreadPool(c) == TRUE

\* The event loop runs coroutine c: no other coroutine is between its first
\* statement and its return.
OnLoop(c) == running \in {0, c}

\* The response of a finished call.
Returned(t, status, token) ==
    [NoCall EXCEPT !.op = t.op, !.email = t.email, !.pc = "done",
                   !.status = status, !.token = token, !.seen = t.seen]

\* A request is received while others may be waiting or running.
Receive ==
    \E c \in Coroutines, op \in {"login", "validate", "logout"},
       email \in Emails, password \in Passwords, session_id \in Tokens :
        /\ ncalls < MaxCalls
        /\ co[c].pc \in {"idle", "done"}
        /\ \A d \in Coroutines : co[d].pc \in {"idle", "done"} => ~(d < c)
        /\ ncalls' = ncalls + 1
        /\ co' = [co EXCEPT ![c] =
               [NoCall EXCEPT !.op = op, !.email = email, !.pc = "pending",
                              !.password = IF op = "login" THEN password ELSE "NULL",
                              !.session_id = IF op = "login" THEN 0 ELSE session_id]]
        /\ UNCHANGED <<running, last_store, active_sessions, nuuid>>
        /\ UNCHANGED notLoopVars

\* login up to its uuid4() call.
LoginLookup ==
    \E c \in Coroutines, fault \in BOOLEAN :
        /\ co[c].op = "login" /\ co[c].pc = "pending"
        /\ OnLoop(c)
        /\ LET user == get_user_by_email(co[c].email, fault)
               t == [co[c] EXCEPT !.seen = ncalls]
           IN  IF user = "NONE" \/ user # co[c].password
               THEN /\ co' = [co EXCEPT ![c] = Returned(t, 401, 0)]
                    /\ running' = 0
                    /\ UNCHANGED nuuid
               ELSE /\ nuuid < MaxTokens
                    /\ nuuid' = nuuid + 1
                    /\ co' = [co EXCEPT ![c] =
                           [t EXCEPT !.pc = "looked", !.token = nuuid + 1]]
                    /\ running' = c
        /\ UNCHANGED <<ncalls, last_store, active_sessions>>
        /\ UNCHANGED notLoopVars

\* login: active_sessions[user["email"]] = {...}.
LoginStore ==
    \E c \in Coroutines :
        /\ co[c].op = "login" /\ co[c].pc = "looked"
        /\ OnLoop(c)
        /\ active_sessions' =
               StoreSession(active_sessions, co[c].email,
                            NewSession(co[c].token, now))
        /\ last_store' = [last_store EXCEPT ![co[c].email] = c]
        /\ co' = [co EXCEPT ![c].pc = "stored"]
        /\ running' = c
        /\ UNCHANGED <<ncalls, nuuid>>
        /\ UNCHANGED notLoopVars

\* login's return.
LoginReturn ==
    \E c \in Coroutines :
        /\ co[c].op = "login" /\ co[c].pc = "stored"
        /\ OnLoop(c)
        /\ co' = [co EXCEPT ![c] = Returned(@, 200, @.token)]
        /\ running' = 0
        /\ UNCHANGED <<ncalls, last_store, active_sessions, nuuid>>
        /\ UNCHANGED notLoopVars

\* validate_session: session = active_sessions.get(req.email).
ValidateGet ==
    \E c \in Coroutines :
        /\ co[c].op = "validate" /\ co[c].pc = "pending"
        /\ OnLoop(c)
        /\ co' = [co EXCEPT ![c] =
               [co[c] EXCEPT !.pc = "read", !.seen = ncalls,
                             !.session = active_sessions[co[c].email]]]
        /\ running' = c
        /\ UNCHANGED <<ncalls, last_store, active_sessions, nuuid>>
        /\ UNCHANGED notLoopVars

\* validate_session: the `if` on the session it read, the pop, the return.
ValidateDecide ==
    \E c \in Coroutines :
        /\ co[c].op = "validate" /\ co[c].pc = "read"
        /\ OnLoop(c)
        /\ IF SessionInvalid(co[c].session, co[c].session_id, now)
           THEN /\ active_sessions' = PopSession(active_sessions, co[c].email)
                /\ co' = [co EXCEPT ![c] = Returned(@, 401, 0)]
           ELSE /\ co' = [co EXCEPT ![c] = Returned(@, 200, 0)]
                /\ UNCHANGED active_sessions
        /\ running' = 0
        /\ UNCHANGED <<ncalls, last_store, nuuid>>
        /\ UNCHANGED notLoopVars

\* user_logout: active_sessions.pop(req.email, None).
LogoutPop ==
    \E c \in Coroutines :
        /\ co[c].op = "logout" /\ co[c].pc = "pending"
        /\ OnLoop(c)
        /\ active_sessions' =
               LogoutSessions(active_sessions, co[c].email, co[c].session_id)
        /\ co' = [co EXCEPT ![c] = [co[c] EXCEPT !.pc = "popped", !.seen = ncalls]]
        /\ running' = c
        /\ UNCHANGED <<ncalls, last_store, nuuid>>
        /\ UNCHANGED notLoopVars

\* user_logout's return.
LogoutReturn ==
    \E c \in Coroutines :
        /\ co[c].op = "logout" /\ co[c].pc = "popped"
        /\ OnLoop(c)
        /\ co' = [co EXCEPT ![c] = Returned(@, 200, 0)]
        /\ running' = 0
        /\ UNCHANGED <<ncalls, last_store, active_sessions, nuuid>>
        /\ UNCHANGED notLoopVars

NextLoop ==
    \/ Receive
    \/ LoginLookup
    \/ LoginStore
    \/ LoginReturn
    \/ ValidateGet
    \/ ValidateDecide
    \/ LogoutPop
    \/ LogoutReturn

Init == InitDb /\ InitSession /\ InitBlog /\ InitLoop

Next == NextDb \/ NextSession \/ NextBlog \/ NextLoop

Spec == Init /\ [][Next]_vars

\* The approval workflow on the shared store.
SpecDb == Init /\ [][NextDb]_vars

\* The session registry of one server process.
SpecSession == Init /\ [][NextSession]_vars

\* The blog endpoints, one request after the other.
SpecBlog == Init /\ [][NextBlog]_vars

\* Concurrent session requests on the event loop of one server process.
SpecLoop == Init /\ [][NextLoop]_vars

\* The store after ann's enquiry was submitted and approved: one active client.
InitClientsDb ==
    /\ enquiries = {}
    /\ quickcontact = {}
    /\ active_clients =
          {[id |-> 1, client_name |-> "ann", contact_email |-> "ann@x",
            contact_phone |-> "111", status |-> "active",
            src |-> [kind |-> "enquiry", id |-> 1], req |-> 0]}
    /\ serial = [enq |-> 2, qc |-> 1, client |-> 2]
    /\ tx = [w \in Workers |-> Idle]
    /\ nreq = 0
    /\ denied = {}

\* The store handlers running on a store that already holds a client project.
InitClients == InitClientsDb /\ InitSession /\ InitBlog /\ InitLoop

SpecClients == InitClients /\ [][NextDb]_vars


\* ------------------------------------------------ properties of the store
\* The committed active_clients rows derived from submission id of a table.
Derived(kind, id) ==
    {r \in active_clients : r.src = [kind |-> kind, id |-> id]}

\* Worker w takes a new request in this step.
Begins(w) == tx'[w].rid = nreq + 1

\* Worker w's request ends in this step.
Ends(w) == tx[w].pc \in {"checked", "inserted", "written"} /\ tx'[w].pc = "done"

ApproveOps == {"approve_enquiry", "approve_quickcontact"}
DenyOps == {"deny_enquiry", "deny_quickcontact"}

\* C1: every enquiry that was submitted and not denied is, in every committed
\* state, either still its enquiry row (and no active_clients row) or exactly
\* one active_clients row derived from it (and no enquiry row).
C1_EnquiryIsRowOrOneClient ==
    \A id \in 1..(serial.enq - 1) :
        [kind |-> "enquiries", id |-> id] \notin denied =>
            \/ Found(enquiries, id) /\ Cardinality(Derived("enquiry", id)) = 0
            \/ ~Found(enquiries, id) /\ Cardinality(Derived("enquiry", id)) = 1

\* The row a transaction has inserted is not committed before its commit.
C2_NoPartialApproval ==
    \A w \in Workers :
        tx[w].ins # NoRow =>
            /\ tx[w].ins \notin active_clients
            /\ \A r \in active_clients : r.req # tx[w].rid

\* No committed active_clients row coexists with its source submission.
C2_ClientExcludesSource ==
    \A r \in active_clients :
        /\ r.src.kind = "enquiry" => ~Found(enquiries, r.src.id)
        /\ r.src.kind = "quickcontact" => ~Found(quickcontact, r.src.id)

\* A step in which an approve handler ends in a storage fault.
C2_FaultStep ==
    \A w \in Workers :
        (tx[w].op \in ApproveOps /\ Ends(w) /\ tx'[w].faulted) =>
            /\ tx'[w].status = 500
            /\ active_clients' = active_clients
            /\ enquiries' = enquiries
            /\ quickcontact' = quickcontact
            /\ \A r \in active_clients' : r.req # tx[w].rid

\* C2: a storage fault in an approve handler after its existence check
\* answers 500 and changes no committed row; the row a transaction has
\* inserted is in no committed state before its commit, and no committed
\* active_clients row coexists with the submission it was derived from.
C2_FaultCommitsNothing ==
    /\ [](C2_NoPartialApproval /\ C2_ClientExcludesSource)
    /\ [][C2_FaultStep]_vars

\* C2 witness: an approve_enquiry that faulted after its INSERT: the sequence
\* has handed out a client id, no client row is committed, the enquiry is still there.
C2_Witness ==
    \E w \in Workers :
        /\ tx[w].pc = "done" /\ tx[w].op = "approve_enquiry"
        /\ tx[w].status = 500
        /\ nreq = 2
        /\ serial.client = 2
        /\ active_clients = {}
        /\ Found(enquiries, tx[w].id)

\* C3: of two approve_quickcontact requests for the same contact at most one
\* reports success, and no contact has two active_clients rows derived from it.
C3_OneApprovalPerContact ==
    /\ \A id \in Ids : Cardinality(Derived("quickcontact", id)) <= 1
    /\ \A v, w \in Workers :
          (/\ v # w
           /\ tx[v].pc = "done" /\ tx[w].pc = "done"
           /\ tx[v].op = "approve_quickcontact"
           /\ tx[w].op = "approve_quickcontact"
           /\ tx[v].id = tx[w].id)
          => ~(tx[v].status = 201 /\ tx[w].status = 201)

\* C4: an approve and a deny of the same submission never both report success.
C4_ApproveDenyExclusive ==
    \A v, w \in Workers :
        (/\ tx[v].pc = "done" /\ tx[w].pc = "done"
         /\ tx[v].op \in ApproveOps /\ tx[w].op \in DenyOps
         /\ TableName(tx[v].op) = TableName(tx[w].op)
         /\ tx[v].id = tx[w].id)
        => ~(tx[v].status = 201 /\ tx[w].status = 200)

\* A step in which a request names an id that is not in its table.
C5_NotFoundStep ==
    \A w \in Workers :
        (/\ Begins(w)
         /\ ~tx'[w].faulted
         /\ ~Found(Db[TableName(tx'[w].op)], tx'[w].id))
        => /\ tx'[w].pc = "done"
           /\ tx'[w].status = 404
           /\ enquiries' = enquiries
           /\ quickcontact' = quickcontact
           /\ active_clients' = active_clients

\* C5: a request naming an id that is not in its table ends at the existence
\* check with 404 (absent a storage fault) and changes no committed row.
C5_MissingIdIsNotFound == [][C5_NotFoundStep]_vars

\* C5 witness: an approve_enquiry answered 404 for an id that had been
\* handed out and is gone.
C5_Witness ==
    \E w \in Workers :
        /\ tx[w].pc = "done" /\ tx[w].op = "approve_enquiry"
        /\ tx[w].status = 404
        /\ tx[w].id < serial.enq
        /\ ~Found(enquiries, tx[w].id)

\* The steps in which a deny handler ends or begins.
C6_DenyStep ==
    \A w \in Workers :
        /\ (tx[w].op \in DenyOps /\ Ends(w)) =>
              /\ tx'[w].status = 200 \/ tx'[w].faulted
              /\ tx'[w].status = 200 =>
                    /\ ~Found(Db[TableName(tx[w].op)]', tx[w].id)
                    /\ active_clients' = active_clients
        /\ (/\ Begins(w)
            /\ tx'[w].op \in DenyOps
            /\ ~tx'[w].faulted
            /\ [kind |-> TableName(tx'[w].op), id |-> tx'[w].id] \in denied)
           => tx'[w].pc = "done" /\ tx'[w].status = 404

\* C6: a deny that passed its existence check succeeds unless storage faults;
\* its commit leaves no row of that id in the table and active_clients as it
\* was; a deny that begins after a deny of the same id committed answers 404.
C6_DenyOnceThenNotFound == [][C6_DenyStep]_vars

\* C6 witness: the second deny_enquiry of an id, answered 404 after the
\* first one committed.
C6_Witness ==
    \E w \in Workers :
        /\ tx[w].pc = "done" /\ tx[w].op = "deny_enquiry"
        /\ tx[w].status = 404
        /\ [kind |-> "enquiries", id |-> tx[w].id] \in denied
        /\ active_clients = {}

\* ------------------------------------- properties of the session registry
\* This step is validate_session(email, session_id).
Validates(email, session_id) ==
    /\ resp'.op = "validate"
    /\ resp'.email = email
    /\ resp'.token = session_id
    /\ ticks' = ticks

\* This step is a login that succeeds for email.
LogsIn(email) ==
    /\ resp'.op = "login"
    /\ resp'.email = email
    /\ resp'.status = 200
    /\ nuuid' = nuuid + 1

\* session_id is the token the last login of email returned, and no logout or
\* failed validation of email has happened since.
Current(email, session_id) ==
    hist[email].live /\ hist[email].token = session_id

\* The expiry of the session the last login of email created.
Expiry(email) == hist[email].at + SESSION_DURATION_MINUTES

C7_Step ==
    \A email \in Emails, session_id \in Tokens :
        (/\ Validates(email, session_id)
         /\ Current(email, session_id)
         /\ now < Expiry(email))
        => /\ resp'.status = 200
           /\ active_sessions' = active_sessions

\* C7: validating the token of the last login before its expiry, with no
\* login, logout or failed validation of that email in between, answers valid
\* and leaves the registry as it was.
C7_ValidTokenValidates == [][C7_Step]_vars

\* C7 witness: the token of the last login of a@x was validated after time
\* had passed, and its session is still stored.
C7_Witness ==
    /\ resp = [op |-> "validate", email |-> "a@x",
               token |-> hist["a@x"].token, status |-> 200]
    /\ hist["a@x"].live
    /\ now > hist["a@x"].at
    /\ active_sessions["a@x"] = NewSession(hist["a@x"].token, hist["a@x"].at)

C8_Step ==
    \A email \in Emails, session_id \in Tokens :
        /\ (/\ Validates(email, session_id)
            /\ hist[email].live
            /\ hist[email].token # session_id)
           => /\ resp'.status = 401
              /\ active_sessions'[email] = NoSession
        /\ (Validates(email, session_id) /\ ~hist[email].live)
           => /\ resp'.status = 401
              /\ active_sessions'[email] = NoSession

\* C8: validating with a token other than the stored one answers 401 and
\* removes the entry, and from then until the next login of that email every
\* validation, the formerly valid token's included, answers 401.
C8_WrongTokenEvicts == [][C8_Step]_vars

\* C8 witness: the token the last login of a@x returned is refused before its
\* expiry, the session having been evicted.
C8_Witness ==
    /\ resp = [op |-> "validate", email |-> "a@x",
               token |-> hist["a@x"].token, status |-> 401]
    /\ hist["a@x"].token # 0
    /\ ~hist["a@x"].live
    /\ now < Expiry("a@x")
    /\ active_sessions["a@x"] = NoSession

C9_Step ==
    \A email \in Emails, session_id \in Tokens :
        Validates(email, session_id) =>
            /\ resp'.status = 200 => hist[email].token = session_id
            /\ hist[email].token # session_id => resp'.status = 401

\* C9: a validation is answered valid only for the token the most recent
\* successful login of that email returned; an earlier token is refused.
C9_OnlyLatestTokenValid == [][C9_Step]_vars

\* C9 witness: a@x logged in twice (tokens 1 and 2, b@x and c@x never), and
\* validating token 1 was refused.
C9_Witness ==
    /\ nuuid = 2
    /\ hist["a@x"].token = 2
    /\ hist["b@x"].token = 0
    /\ resp = [op |-> "validate", email |-> "a@x", token |-> 1, status |-> 401]

C10_Step ==
    \A email \in Emails :
        /\ LogsIn(email) =>
              active_sessions'[email] =
                  [session_id |-> resp'.token,
                   expires_at |-> now + SESSION_DURATION_MINUTES]
        /\ \A session_id \in Tokens :
              /\ (/\ Validates(email, session_id)
                  /\ hist[email].token = session_id
                  /\ now > Expiry(email))
                 => /\ resp'.status = 401
                    /\ active_sessions'[email] = NoSession
              /\ (/\ Validates(email, session_id)
                  /\ Current(email, session_id)
                  /\ now <= Expiry(email))
                 => resp'.status = 200

\* C10: a login at time t stores expiry t + 1080 minutes; validating the
\* matching token later than that answers 401 and removes the entry; at any
\* time up to and including the expiry (no login, logout or failed validation
\* in between) it answers valid.
C10_ExpiryBoundary == [][C10_Step]_vars

\* C10 witness: the token of a live session was validated exactly at its
\* expiry instant and accepted.
C10_Witness ==
    /\ resp = [op |-> "validate", email |-> "a@x",
               token |-> hist["a@x"].token, status |-> 200]
    /\ hist["a@x"].live
    /\ now = Expiry("a@x")

\* This step is user_logout(email, session_id).
LogsOut(email, session_id) ==
    /\ resp'.op = "logout"
    /\ resp'.email = email
    /\ resp'.token = session_id
    /\ ticks' = ticks

C11_Step ==
    \A email \in Emails, session_id \in Tokens :
        /\ LogsOut(email, session_id) =>
              /\ resp'.status = 200
              /\ active_sessions'[email] = NoSession
              /\ \A other \in Emails \ {email} :
                    active_sessions'[other] = active_sessions[other]
        /\ (Validates(email, session_id) /\ ~hist[email].live) =>
              resp'.status = 401

\* C11: user_logout removes the entry of its email whatever token it is given,
\* answers logged_out also when there is no entry, and leaves every other
\* email's entry as it was; from then until the next login of that email every
\* validation answers 401.
C11_LogoutRemovesEntry == [][C11_Step]_vars

\* C11 witness: a@x was logged out with a token that is not the one its login
\* returned, its entry is gone and the entry of b@x is still stored.
C11_Witness ==
    /\ resp.op = "logout" /\ resp.email = "a@x" /\ resp.status = 200
    /\ hist["a@x"].token # 0
    /\ resp.token # hist["a@x"].token
    /\ active_sessions["a@x"] = NoSession
    /\ active_sessions["b@x"] # NoSession

C12_Step ==
    /\ \A r \in active_clients :
          \E r2 \in active_clients' :
              /\ r2.id = r.id
              /\ r.status = "completed" => r2.status = "completed"
    /\ \A w \in Workers :
          (Ends(w) /\ tx[w].op = "complete" /\ tx'[w].status = 200) =>
              \E r \in active_clients' :
                  r.id = tx[w].id /\ r.status = "completed"

\* C12: a complete_client_project that returns 200 leaves its row with status
\* completed, and no step of any handler removes an active_clients row or
\* takes a completed row to another status.
C12_CompletedStaysCompleted == [][C12_Step]_vars

\* C12 witness: client 1 is completed, and an approval that was the third
\* request has since committed a second client row.
C12_Witness ==
    /\ \E r \in active_clients : r.id = 1 /\ r.status = "completed"
    /\ \E r \in active_clients : r.id = 2 /\ r.req = 3
    /\ \E w \in Workers :
          tx[w].pc = "done" /\ tx[w].rid = 3 /\ tx[w].op \in ApproveOps

\* C15: the active_clients row that approve_enquiry inserts carries the name,
\* email and phone of the stored enquiry row it approves, whatever the request
\* body holds.
C15_ClientCopiesEnquiry ==
    \A w \in Workers :
        (/\ tx[w].op = "approve_enquiry"
         /\ tx[w].pc = "inserted"
         /\ Found(enquiries, tx[w].id)) =>
            \E e \in enquiries :
                /\ e.id = tx[w].id
                /\ tx[w].ins.client_name = e.name
                /\ tx[w].ins.contact_email = e.email
                /\ tx[w].ins.contact_phone = e.phone

\* C16: a request that meets a storage fault is answered 500; in particular a
\* login whose user lookup faults is answered 500, not 401.
C16_FaultIsInternalError ==
    (resp.op = "login" /\ lastFault) => resp.status = 500

\* C17: every request that opened a database connection has closed it by the
\* time it returns, on the success path and on every error path.
C17_ConnectionClosedOnReturn ==
    \A w \in Workers : tx[w].pc = "done" => tx[w].conn # "open"

\* C13: after any sequence of add_blog, edit_blog and delete_blog requests no
\* two blogs rows carry the same slug; an edit_blog that renames a blog to the
\* slug of another blog does not leave two rows with that slug.
C13_SlugsUnique ==
    \A b1 \in blogs, b2 \in blogs : b1.slug = b2.slug => b1.id = b2.id

\* Coroutine c is between its first statement and its return.
InHandler(c) == co[c].pc \in {"looked", "stored", "read", "popped"}

\* Coroutine c has returned a token for email.
LoggedIn(c, email) ==
    co[c].pc = "done" /\ co[c].op = "login" /\ co[c].email = email
        /\ co[c].status = 200

\* C14: the registry holds one entry per email, no two of login,
\* validate_session and user_logout are inside their bodies at once, and after
\* two logins of one email the entry holds the token of the one that stored
\* last while the token of the other does not validate.
C14_RegistryAccessExclusive ==
    /\ DOMAIN active_sessions = Emails
    /\ \A c \in Coroutines, d \in Coroutines :
          (InHandler(c) /\ InHandler(d)) => c = d
    /\ \A email \in Emails, c \in Coroutines, d \in Coroutines :
          (c # d /\ LoggedIn(c, email) /\ LoggedIn(d, email)
                 /\ last_store[email] = c) =>
              /\ active_sessions[email].session_id = co[c].token
              /\ co[d].token # co[c].token
              /\ SessionInvalid(active_sessions[email], co[d].token, now)

\* C14 witness: two logins of a@x were both waiting before either ran; both
\* have returned their tokens and the entry holds the one stored last.
C14_Witness ==
    /\ LoggedIn(1, "a@x") /\ LoggedIn(2, "a@x")
    /\ co[1].seen = 2 /\ co[2].seen = 2
    /\ last_store["a@x"] \in Coroutines
    /\ active_sessions["a@x"].session_id = co[last_store["a@x"]].token

=============================================================================
